---- MODULE Spec2Model ----
(***************************************************************************)
(* Stock-balancing decision engine of the retail inventory dashboard.      *)
(*                                                                         *)
(*   Policy B (velocity ratio)   : prototype/app.py                        *)
(*   Policy A (absolute)         : prototype/app_1st.py, app_min.py        *)
(*   Schema                      : prototype/database_1st.py               *)
(*                                                                         *)
(* The business rules live in SQL text executed by SQLite, so the model    *)
(* keeps SQL's three-valued logic: a comparison with NULL is NULL, a CASE  *)
(* branch is taken only when its condition is TRUE, a WHERE keeps a row    *)
(* only when its condition is TRUE.  SQLite yields NULL for a division by  *)
(* zero.  REAL ratios are kept as exact fractions <<num, den>>; for the    *)
(* integer magnitudes involved an IEEE double quotient compares with an    *)
(* integer or with 1.0/K exactly as the fraction does.                     *)
(***************************************************************************)
EXTENDS Integers, Sequences, FiniteSets, TLC

VARIABLES
    low_stock_threshold,      \* sidebar "Low stock level"
    need_ratio_threshold,     \* sidebar "Sales velocity ratio"
    excess_stock_threshold,   \* sidebar "Minimum stock for excess"
    excess_ratio_threshold,   \* sidebar "Slow-moving ratio"
    days_lookback,            \* sidebar "Sales lookback period (days)"
    products,                 \* table products: set of SKUs
    stock_levels,             \* table stock_levels: set of rows
    sales,                    \* table sales: sequence of rows (append-only log)
    transfer_recommendations, \* table transfer_recommendations: sequence of rows
    df,                       \* result of the classification query (sequence of rows)
    transfers,                \* result of the transfer query after the > 0 filter
    app                       \* which script produced df: "none", "app", "app_1st", "app_min";
                              \* "error" when the last run of app.py stopped on an exception

vars == <<low_stock_threshold, need_ratio_threshold, excess_stock_threshold,
          excess_ratio_threshold, days_lookback, products, stock_levels, sales,
          transfer_recommendations, df, transfers, app>>

(***************************************************************************)
(* Widget ranges and defaults.                                             *)
(***************************************************************************)
LowMin == 1
LowMax == 10
LowDefault == 2
NeedRatioMin == 1
NeedRatioMax == 5
NeedRatioDefault == 2
ExcessMin == 5
ExcessMax == 20
ExcessDefault == 8
ExcessRatioMin == 1
ExcessRatioMax == 10
ExcessRatioDefault == 7
DaysLookbackMin == 1
DaysLookbackDefault == 7
NoSalesCoverage == 999

(***************************************************************************)
(* Bounds of the exploration.                                              *)
(***************************************************************************)
MaxStock == 8
MaxUnits == 2
MaxSalesRows == 4
MaxRecs == 1
MaxSaleEvents == 2
MaxConfirmed == 2
MaxLimitSkus == 14

\* sample_products of the template download.
Skus == {"RUN001-9", "RUN001-10", "CAS001-8"}

\* Table stores as init_database leaves it (three of the default rows).
\* type_rank and name_rank give the collation order of store_type and
\* store_name ('online' < 'physical'; names in alphabetical order).
stores ==
    { [store_id |-> "ONLINE",  store_name |-> "Online Store",      store_type |-> "online",
       is_active |-> 1, type_rank |-> 1, name_rank |-> 2],
      [store_id |-> "STORE01", store_name |-> "Sydney CBD",        store_type |-> "physical",
       is_active |-> 1, type_rank |-> 2, name_rank |-> 3],
      [store_id |-> "STORE02", store_name |-> "Melbourne Central", store_type |-> "physical",
       is_active |-> 1, type_rank |-> 2, name_rank |-> 1] }

StoreIds == { s.store_id : s \in stores }

(***************************************************************************)
(* SQL values.                                                             *)
(***************************************************************************)
\* REAL values are fractions <<num, den>> with den > 0; den = 0 is NULL.
NullReal == <<0, 0>>
IsNull(r) == r[2] = 0
Real(n) == <<n, 1>>

\* CAST(a AS FLOAT) / b : NULL when b = 0 (SQLite), else the quotient a/b.
Div(a, b) ==
    IF b = 0 THEN NullReal
    ELSE IF b < 0 THEN <<-a, -b>> ELSE <<a, b>>

\* Three-valued truth values.
B3(b) == IF b THEN "T" ELSE "F"
And3(x, y) ==
    IF x = "F" \/ y = "F" THEN "F"
    ELSE IF x = "T" /\ y = "T" THEN "T" ELSE "N"
Or3(x, y) ==
    IF x = "T" \/ y = "T" THEN "T"
    ELSE IF x = "F" /\ y = "F" THEN "F" ELSE "N"

\* r > s on REAL values.
Gt3(r, s) ==
    IF IsNull(r) \/ IsNull(s) THEN "N"
    ELSE B3(r[1] * s[2] > s[1] * r[2])

\* r >= s on REAL values.
Ge3(r, s) ==
    IF IsNull(r) \/ IsNull(s) THEN "N"
    ELSE B3(r[1] * s[2] >= s[1] * r[2])

Min2(a, b) == IF a <= b THEN a ELSE b
Max2(a, b) == IF a >= b THEN a ELSE b

RECURSIVE SumQty(_)
SumQty(s) == IF s = <<>> THEN 0 ELSE s[1].quantity + SumQty(Tail(s))

\* All sequences holding each element of the finite set S once: the orders
\* in which a query without ORDER BY may return its rows.
RECURSIVE AnyOrder(_)
AnyOrder(S) ==
    IF S = {} THEN {<<>>}
    ELSE UNION { UNION { { <<m>> \o s : s \in AnyOrder(R) } : R \in {S \ {m}} } : m \in S }

(***************************************************************************)
(* Sales Aggregator: the sales_last_n_days / sales_data CTE of app.py.     *)
(* sale_date is a day offset: 0 is today, k > 0 is k days ago.             *)
(***************************************************************************)
InWindow(sale, days) == sale.sale_date <= days

SalesOf(store_id, sku, days) ==
    SelectSeq(sales, LAMBDA r : r.store_id = store_id /\ r.sku = sku /\ InWindow(r, days))

\* COALESCE(sd.units_sold, 0)
UnitsSold(store_id, sku, days) == SumQty(SalesOf(store_id, sku, days))

\* COALESCE(sd.days_sold, 0)
DaysSold(store_id, sku, days) ==
    LET rows == SalesOf(store_id, sku, days) IN
    Cardinality({ rows[i].sale_date : i \in 1..Len(rows) })

(***************************************************************************)
(* Position Classifier, Policy B: the classification query of app.py.      *)
(***************************************************************************)
SalesToStockRatio(units_sold, current_stock) ==
    IF units_sold = 0 THEN Real(0) ELSE Div(units_sold, current_stock)

StockToSalesRatio(units_sold, current_stock) ==
    IF units_sold = 0 THEN Real(NoSalesCoverage) ELSE Div(current_stock, units_sold)

\* One row of the stock_info CTE for a stock_levels row sl and its stores row s.
StockInfoRow(sl, s) ==
    LET units == UnitsSold(sl.store_id, sl.sku, days_lookback) IN
    [store_id |-> sl.store_id, sku |-> sl.sku,
     type_rank |-> s.type_rank, name_rank |-> s.name_rank,
     current_stock |-> sl.quantity,
     units_sold |-> units,
     days_sold |-> DaysSold(sl.store_id, sl.sku, days_lookback),
     sales_to_stock_ratio |-> SalesToStockRatio(units, sl.quantity),
     stock_to_sales_ratio |-> StockToSalesRatio(units, sl.quantity)]

\* Mutant of StockInfo: the join with products left out.
StockInfoAnySku ==
    UNION { { StockInfoRow(sl, s) :
                s \in { y \in stores : y.store_id = sl.store_id /\ y.is_active = 1 } } :
            sl \in stock_levels }

\* stock_info CTE: stock_levels JOIN stores JOIN products LEFT JOIN sales,
\* WHERE s.is_active = 1.
StockInfo ==
    UNION { { StockInfoRow(sl, s) :
                s \in { y \in stores : y.store_id = sl.store_id /\ y.is_active = 1 } } :
            sl \in { x \in stock_levels : x.sku \in products } }

\* Mutant of NeedsCondition: the velocity test written with >= instead of >.
NeedsConditionAtRatio(r, low, need_ratio) ==
    Or3(And3(B3(r.units_sold > 0), B3(r.current_stock <= low)),
        And3(Ge3(r.sales_to_stock_ratio, Div(1, need_ratio)), B3(r.current_stock > 0)))

\* Mutant of NeedsCondition: the low-stock test written with = instead of <=.
NeedsConditionOnFloor(r, low, need_ratio) ==
    Or3(And3(B3(r.units_sold > 0), B3(r.current_stock = low)),
        And3(Gt3(r.sales_to_stock_ratio, Div(1, need_ratio)), B3(r.current_stock > 0)))

\* The WHEN condition of the NEEDS_STOCK branch of the status CASE.  AND binds
\* tighter than OR: (units_sold > 0 AND stock <= low) OR (ratio > 1/K AND stock > 0).
NeedsCondition(r, low, need_ratio) ==
    Or3(And3(B3(r.units_sold > 0), B3(r.current_stock <= low)),
        And3(Gt3(r.sales_to_stock_ratio, Div(1, need_ratio)), B3(r.current_stock > 0)))

\* Mutant of ExcessCondition: the stock test written with > instead of >=.
ExcessConditionAboveOnly(r, excess, excess_ratio) ==
    And3(B3(r.current_stock > excess),
         Or3(B3(r.units_sold = 0), Gt3(r.stock_to_sales_ratio, Real(excess_ratio))))

\* The WHEN condition of the EXCESS_STOCK branch of the status CASE.
ExcessCondition(r, excess, excess_ratio) ==
    And3(B3(r.current_stock >= excess),
         Or3(B3(r.units_sold = 0), Gt3(r.stock_to_sales_ratio, Real(excess_ratio))))

\* Mutant of Status: NEEDS_STOCK only for positions that sold on several days.
StatusBySellingDays(r, low, need_ratio, excess, excess_ratio) ==
    IF NeedsCondition(r, low, need_ratio) = "T" /\ r.days_sold > 1 THEN "NEEDS_STOCK"
    ELSE IF ExcessCondition(r, excess, excess_ratio) = "T" THEN "EXCESS_STOCK"
    ELSE "OK"

\* status CASE: the first branch whose condition is TRUE, else 'OK'.
Status(r, low, need_ratio, excess, excess_ratio) ==
    IF NeedsCondition(r, low, need_ratio) = "T" THEN "NEEDS_STOCK"
    ELSE IF ExcessCondition(r, excess, excess_ratio) = "T" THEN "EXCESS_STOCK"
    ELSE "OK"

\* Mutant of ImbalanceQty: the needs side takes the larger of the safety
\* floor and the velocity target.
ImbalanceQtyLargerTarget(r, low, need_ratio, excess, excess_ratio) ==
    IF And3(B3(r.units_sold > 0), B3(r.current_stock <= low)) = "T"
        THEN Max2(low - r.current_stock, r.units_sold * need_ratio - r.current_stock)
    ELSE IF And3(B3(r.units_sold > 0),
                 Gt3(r.sales_to_stock_ratio, Div(1, need_ratio))) = "T"
        THEN r.units_sold * need_ratio - r.current_stock
    ELSE IF And3(B3(r.current_stock >= excess),
                 Or3(B3(r.units_sold = 0),
                     Gt3(r.stock_to_sales_ratio, Real(excess_ratio)))) = "T"
        THEN r.current_stock - r.units_sold * excess_ratio
    ELSE 0

\* Mutant of ImbalanceQty: the excess side keeps the excess threshold in
\* stock when nothing was sold, as transfer_qty_available does.
ImbalanceQtyKeepThreshold(r, low, need_ratio, excess, excess_ratio) ==
    IF And3(B3(r.units_sold > 0), B3(r.current_stock <= low)) = "T"
        THEN low - r.current_stock
    ELSE IF And3(B3(r.units_sold > 0),
                 Gt3(r.sales_to_stock_ratio, Div(1, need_ratio))) = "T"
        THEN r.units_sold * need_ratio - r.current_stock
    ELSE IF And3(B3(r.current_stock >= excess),
                 Or3(B3(r.units_sold = 0),
                     Gt3(r.stock_to_sales_ratio, Real(excess_ratio)))) = "T"
        THEN IF r.units_sold = 0 THEN r.current_stock - excess
             ELSE r.current_stock - r.units_sold * excess_ratio
    ELSE 0

\* imbalance_qty CASE.  units_sold * ? is an integer product, so the CAST is
\* the identity.
ImbalanceQty(r, low, need_ratio, excess, excess_ratio) ==
    IF And3(B3(r.units_sold > 0), B3(r.current_stock <= low)) = "T"
        THEN low - r.current_stock
    ELSE IF And3(B3(r.units_sold > 0),
                 Gt3(r.sales_to_stock_ratio, Div(1, need_ratio))) = "T"
        THEN r.units_sold * need_ratio - r.current_stock
    ELSE IF ExcessCondition(r, excess, excess_ratio) = "T"
        THEN r.current_stock - r.units_sold * excess_ratio
    ELSE 0

\* Sort rank of the status in the ORDER BY of the classification query.
StatusRank(status) ==
    IF status = "NEEDS_STOCK" THEN 1 ELSE IF status = "EXCESS_STOCK" THEN 2 ELSE 3

\* A classified row: SELECT *, status, imbalance_qty FROM stock_info.
Classified(r, low, need_ratio, excess, excess_ratio) ==
    [store_id |-> r.store_id, sku |-> r.sku,
     type_rank |-> r.type_rank, name_rank |-> r.name_rank,
     current_stock |-> r.current_stock, units_sold |-> r.units_sold,
     days_sold |-> r.days_sold,
     sales_to_stock_ratio |-> r.sales_to_stock_ratio,
     stock_to_sales_ratio |-> r.stock_to_sales_ratio,
     status |-> Status(r, low, need_ratio, excess, excess_ratio),
     imbalance_qty |-> ImbalanceQty(r, low, need_ratio, excess, excess_ratio)]

\* x sorts strictly before y under
\* ORDER BY store_type DESC, store_name, status rank, sales_to_stock_ratio DESC,
\* current_stock.  NULL is the smallest value, so it comes last under DESC.
RatioDescBefore(a, b) ==
    IF IsNull(a) THEN FALSE
    ELSE IF IsNull(b) THEN TRUE
    ELSE a[1] * b[2] > b[1] * a[2]

ClassifiedBefore(x, y) ==
    \/ x.type_rank > y.type_rank
    \/ /\ x.type_rank = y.type_rank
       /\ \/ x.name_rank < y.name_rank
          \/ /\ x.name_rank = y.name_rank
             /\ \/ StatusRank(x.status) < StatusRank(y.status)
                \/ /\ StatusRank(x.status) = StatusRank(y.status)
                   /\ \/ RatioDescBefore(x.sales_to_stock_ratio, y.sales_to_stock_ratio)
                      \/ /\ ~RatioDescBefore(y.sales_to_stock_ratio, x.sales_to_stock_ratio)
                         /\ x.current_stock < y.current_stock

\* All orderings of the rows S in which no row comes before a row that sorts
\* strictly before it: what the ORDER BY leaves open among ties.
RECURSIVE ClassifiedOrderings(_)
ClassifiedOrderings(S) ==
    IF S = {} THEN {<<>>}
    ELSE UNION { UNION { { <<m>> \o s : s \in ClassifiedOrderings(R) } : R \in {S \ {m}} } :
                 m \in { x \in S : \A y \in S : ~ClassifiedBefore(y, x) } }

\* The row sequences the classification query may return.
ClassificationQuery ==
    UNION { ClassifiedOrderings(rows) :
            rows \in { { Classified(r, low_stock_threshold, need_ratio_threshold,
                                    excess_stock_threshold, excess_ratio_threshold) :
                         r \in StockInfo } } }

(***************************************************************************)
(* Transfer Matcher: the transfer query of app.py.                         *)
(***************************************************************************)
TransferLimit == 25
CriticalBonus == 5
HighPriorityScore == 8
MediumPriorityScore == 4

\* One row of the store_performance CTE.
StorePerformanceRow(sl, s) ==
    LET units == UnitsSold(sl.store_id, sl.sku, days_lookback) IN
    [store_id |-> sl.store_id, sku |-> sl.sku,
     current_stock |-> sl.quantity,
     units_sold |-> units,
     sales_velocity |-> SalesToStockRatio(units, sl.quantity),
     stock_coverage |-> StockToSalesRatio(units, sl.quantity)]

StorePerformance ==
    UNION { { StorePerformanceRow(sl, s) :
                s \in { y \in stores : y.store_id = sl.store_id /\ y.is_active = 1 } } :
            sl \in { x \in stock_levels : x.sku \in products } }

\* needs_stores CTE.
NeedsStores(low, need_ratio) ==
    { r \in StorePerformance :
        And3(B3(r.units_sold > 0),
             Or3(B3(r.current_stock <= low),
                 Gt3(r.sales_velocity, Div(1, need_ratio)))) = "T" }

\* excess_stores CTE.
ExcessStores(excess, excess_ratio) ==
    { r \in StorePerformance :
        And3(B3(r.current_stock >= excess),
             Or3(B3(r.units_sold = 0),
                 Gt3(r.stock_coverage, Real(excess_ratio)))) = "T" }

\* transfer_qty_needed CASE.
TransferQtyNeeded(n, low, need_ratio) ==
    IF n.current_stock <= low THEN low - n.current_stock
    ELSE n.units_sold * need_ratio - n.current_stock

\* transfer_qty_available CASE.
TransferQtyAvailable(e, excess, excess_ratio) ==
    IF e.units_sold = 0 THEN e.current_stock - excess
    ELSE e.current_stock - e.units_sold * excess_ratio

\* (n.sales_velocity * 10) + (CASE WHEN n.current_stock <= ? THEN 5 ELSE 0 END);
\* NULL when the velocity is NULL.
PriorityScore(n, low) ==
    LET v == n.sales_velocity
        bonus == IF n.current_stock <= low THEN CriticalBonus ELSE 0
    IN  IF IsNull(v) THEN NullReal ELSE <<v[1] * 10 + bonus * v[2], v[2]>>

\* Mutant of TransferRow: transfer_qty is the needed quantity, whatever the
\* source can spare.
TransferRowNeededOnly(n, e, low, need_ratio, excess, excess_ratio) ==
    [needs_store_id |-> n.store_id, sku |-> n.sku,
     needs_qty |-> n.current_stock, needs_sales |-> n.units_sold,
     needs_velocity |-> n.sales_velocity,
     has_store_id |-> e.store_id, has_qty |-> e.current_stock,
     has_sales |-> e.units_sold, has_coverage |-> e.stock_coverage,
     transfer_qty_needed |-> TransferQtyNeeded(n, low, need_ratio),
     transfer_qty_available |-> TransferQtyAvailable(e, excess, excess_ratio),
     transfer_qty |-> TransferQtyNeeded(n, low, need_ratio),
     priority_score |-> PriorityScore(n, low)]

\* One row of the SELECT list for the pair (n, e).
TransferRow(n, e, low, need_ratio, excess, excess_ratio) ==
    [needs_store_id |-> n.store_id, sku |-> n.sku,
     needs_qty |-> n.current_stock, needs_sales |-> n.units_sold,
     needs_velocity |-> n.sales_velocity,
     has_store_id |-> e.store_id, has_qty |-> e.current_stock,
     has_sales |-> e.units_sold, has_coverage |-> e.stock_coverage,
     transfer_qty_needed |-> TransferQtyNeeded(n, low, need_ratio),
     transfer_qty_available |-> TransferQtyAvailable(e, excess, excess_ratio),
     transfer_qty |-> Min2(TransferQtyNeeded(n, low, need_ratio),
                           TransferQtyAvailable(e, excess, excess_ratio)),
     priority_score |-> PriorityScore(n, low)]

\* Mutant of TransferJoin: the join without n.store_id != e.store_id.
TransferJoinAnyStore(low, need_ratio, excess, excess_ratio) ==
    LET pairs == { p \in NeedsStores(low, need_ratio) \X ExcessStores(excess, excess_ratio) :
                     /\ p[1].sku = p[2].sku
                     /\ p[1].current_stock < low
                     /\ p[2].current_stock > excess }
    IN  { TransferRow(p[1], p[2], low, need_ratio, excess, excess_ratio) : p \in pairs }

\* Mutant of TransferJoin: the source filter written with >= instead of >.
TransferJoinFromThreshold(low, need_ratio, excess, excess_ratio) ==
    LET pairs == { p \in NeedsStores(low, need_ratio) \X ExcessStores(excess, excess_ratio) :
                     /\ p[1].sku = p[2].sku
                     /\ p[1].store_id # p[2].store_id
                     /\ p[1].current_stock < low
                     /\ p[2].current_stock >= excess }
    IN  { TransferRow(p[1], p[2], low, need_ratio, excess, excess_ratio) : p \in pairs }

\* FROM needs_stores n JOIN excess_stores e ON n.sku = e.sku WHERE ...
TransferJoin(low, need_ratio, excess, excess_ratio) ==
    LET pairs == { p \in NeedsStores(low, need_ratio) \X ExcessStores(excess, excess_ratio) :
                     /\ p[1].sku = p[2].sku
                     /\ p[1].store_id # p[2].store_id
                     /\ p[1].current_stock < low
                     /\ p[2].current_stock > excess }
    IN  { TransferRow(p[1], p[2], low, need_ratio, excess, excess_ratio) : p \in pairs }

\* x sorts strictly before y under ORDER BY priority_score DESC, n.units_sold DESC.
TransferBefore(x, y) ==
    \/ RatioDescBefore(x.priority_score, y.priority_score)
    \/ /\ ~RatioDescBefore(y.priority_score, x.priority_score)
       /\ x.needs_sales > y.needs_sales

\* Mutant of Limit: the last n rows instead of the first n.
LimitFromEnd(s, n) == SubSeq(s, Len(s) - Min2(Len(s), n) + 1, Len(s))

\* LIMIT n
Limit(s, n) == SubSeq(s, 1, Min2(Len(s), n))

\* transfers[transfers['transfer_qty'] > 0]
PositiveQty(s) == SelectSeq(s, LAMBDA row : row.transfer_qty > 0)

\* All orderings of the rows S that the ORDER BY of the transfer query allows.
RECURSIVE TransferOrderings(_)
TransferOrderings(S) ==
    IF S = {} THEN {<<>>}
    ELSE UNION { UNION { { <<m>> \o s : s \in TransferOrderings(R) } : R \in {S \ {m}} } :
                 m \in { x \in S : \A y \in S : ~TransferBefore(y, x) } }

\* The lists the transfer section of the script may end up with: the query's
\* rows in an order ORDER BY allows, cut by LIMIT, then filtered by pandas.
TransferQuery ==
    UNION { { PositiveQty(Limit(s, TransferLimit)) : s \in TransferOrderings(rows) } :
            rows \in { TransferJoin(low_stock_threshold, need_ratio_threshold,
                                    excess_stock_threshold, excess_ratio_threshold) } }

\* The tier a displayed row falls in; rows with a NULL (NaN) score satisfy none
\* of the three pandas masks.
PriorityTier(row) ==
    IF Ge3(row.priority_score, Real(HighPriorityScore)) = "T" THEN "high"
    ELSE IF Ge3(row.priority_score, Real(MediumPriorityScore)) = "T" THEN "medium"
    ELSE IF IsNull(row.priority_score) THEN "none"
    ELSE "low"

\* The label the Create Transfer handler stores.
PriorityLabel(row) ==
    IF Ge3(row.priority_score, Real(HighPriorityScore)) = "T" THEN "high"
    ELSE IF Ge3(row.priority_score, Real(MediumPriorityScore)) = "T" THEN "medium"
    ELSE "low"

(***************************************************************************)
(* Position Classifier, Policy A: app_1st.py (SQL) and app_min.py (loop).  *)
(***************************************************************************)
ExcessFixedMin == 5
LowMaxMin == 5

\* Mutant of StatusA: the low-stock test written with < instead of <=.
StatusABelowOnly(units_sold, current_stock, low, excess) ==
    IF units_sold > 0 /\ current_stock < low THEN "NEEDS_STOCK"
    ELSE IF units_sold = 0 /\ current_stock >= excess THEN "EXCESS_STOCK"
    ELSE "OK"

\* Mutant of StatusA: the excess branch without its units_sold = 0 test.
StatusAAnySales(units_sold, current_stock, low, excess) ==
    IF units_sold > 0 /\ current_stock <= low THEN "NEEDS_STOCK"
    ELSE IF current_stock >= excess THEN "EXCESS_STOCK"
    ELSE "OK"

\* status CASE of app_1st.py
StatusA(units_sold, current_stock, low, excess) ==
    IF units_sold > 0 /\ current_stock <= low THEN "NEEDS_STOCK"
    ELSE IF units_sold = 0 /\ current_stock >= excess THEN "EXCESS_STOCK"
    ELSE "OK"

\* Mutant of ImbalanceQtyA: the deficit reported as a positive number.
ImbalanceQtyAPositiveDeficit(units_sold, current_stock, low, excess) ==
    IF units_sold > 0 /\ current_stock <= low THEN low - current_stock
    ELSE IF units_sold = 0 /\ current_stock >= excess THEN current_stock - excess
    ELSE 0

\* imbalance_qty CASE of app_1st.py
ImbalanceQtyA(units_sold, current_stock, low, excess) ==
    IF units_sold > 0 /\ current_stock <= low THEN current_stock - low
    ELSE IF units_sold = 0 /\ current_stock >= excess THEN current_stock - excess
    ELSE 0

\* needs / excess loop of app_min.py: a row goes to the needs list, to the
\* excess list or to neither.
StatusMin(sales_count, quantity, low_stock) ==
    IF sales_count > 0 /\ quantity <= low_stock THEN "NEEDS_STOCK"
    ELSE IF sales_count = 0 /\ quantity >= ExcessFixedMin THEN "EXCESS_STOCK"
    ELSE "OK"

\* The rows of app_1st.py's combined CTE for the stock rows present.
CombinedA ==
    { [store_id |-> sl.store_id, sku |-> sl.sku,
       current_stock |-> sl.quantity,
       units_sold |-> UnitsSold(sl.store_id, sl.sku, days_lookback),
       days_sold |-> DaysSold(sl.store_id, sl.sku, days_lookback),
       status |-> StatusA(UnitsSold(sl.store_id, sl.sku, days_lookback), sl.quantity,
                          low_stock_threshold, excess_stock_threshold),
       imbalance_qty |-> ImbalanceQtyA(UnitsSold(sl.store_id, sl.sku, days_lookback),
                                       sl.quantity, low_stock_threshold,
                                       excess_stock_threshold)] :
      sl \in { x \in stock_levels : x.store_id \in StoreIds } }

\* The rows app_min.py sorts into needs / excess, store by store.
RowsMin ==
    { [store_id |-> sl.store_id, sku |-> sl.sku,
       current_stock |-> sl.quantity,
       units_sold |-> UnitsSold(sl.store_id, sl.sku, days_lookback),
       status |-> StatusMin(UnitsSold(sl.store_id, sl.sku, days_lookback), sl.quantity,
                            low_stock_threshold)] :
      sl \in { x \in stock_levels : x.store_id \in StoreIds } }

(***************************************************************************)
(* Script runs.  Streamlit re-executes the whole script after every widget *)
(* interaction, so every handler ends with the two queries.                *)
(***************************************************************************)
\* The classification query and the transfer section, on the (new) tables
\* and widget values.
Evaluate ==
    /\ df' \in ClassificationQuery'
    /\ transfers' \in TransferQuery'
    /\ app' = "app"

Thresholds == <<low_stock_threshold, need_ratio_threshold, excess_stock_threshold,
                excess_ratio_threshold, days_lookback>>
Tables == <<products, stock_levels, sales, transfer_recommendations>>

\* A run of app.py with nothing uploaded and no button pressed.
Rerun ==
    /\ UNCHANGED <<Thresholds, Tables>>
    /\ Evaluate

\* The status and imbalance_qty CASE expressions of app_1st.py's combined
\* CTE, applied to the stock rows.  The rows come back in no guaranteed order.
ClassifyA ==
    /\ need_ratio_threshold = NeedRatioDefault
    /\ excess_ratio_threshold = ExcessRatioDefault
    /\ UNCHANGED <<Thresholds, Tables, transfers>>
    /\ df' \in UNION { AnyOrder(rows) : rows \in {CombinedA} }
    /\ app' = "app_1st"

\* The needs / excess loop of app_min.py, which has a low-stock slider only
\* and the literal 5 as its excess threshold.
ClassifyMin ==
    /\ low_stock_threshold <= LowMaxMin
    /\ excess_stock_threshold = ExcessFixedMin
    /\ need_ratio_threshold = NeedRatioDefault
    /\ excess_ratio_threshold = ExcessRatioDefault
    /\ UNCHANGED <<Thresholds, Tables, transfers>>
    /\ df' \in UNION { AnyOrder(rows) : rows \in {RowsMin} }
    /\ app' = "app_min"

(***************************************************************************)
(* SpecClassify: the classifiers as functions of their inputs.  The        *)
(* database holds two positions with the same stock and the same units     *)
(* sold, in different stores, for different SKUs and with the sales spread *)
(* over a different number of days; the widgets hold any allowed setting.  *)
(* Excess thresholds above MaxStock + 1 are left out: no stock of the      *)
(* model reaches them, so they classify like MaxStock + 1.                 *)
(***************************************************************************)
\* units sold as one sale of that quantity today
OneSale(store_id, sku, units) ==
    IF units = 0 THEN <<>>
    ELSE <<[store_id |-> store_id, sku |-> sku, sale_date |-> 0, quantity |-> units]>>

\* units sold as single-unit sales on consecutive days
DailySales(store_id, sku, units) ==
    [i \in 1..units |->
        [store_id |-> store_id, sku |-> sku, sale_date |-> i - 1, quantity |-> 1]]

InitClassify ==
    /\ low_stock_threshold \in LowMin..LowMax
    /\ \/ /\ need_ratio_threshold \in NeedRatioMin..NeedRatioMax
          /\ excess_ratio_threshold \in ExcessRatioMin..ExcessRatioMax
          /\ excess_stock_threshold \in ExcessMin..Min2(ExcessMax, MaxStock + 1)
    /\ days_lookback = DaysLookbackDefault
    /\ products = Skus
    /\ \E q \in 0..MaxStock :
         stock_levels = {[store_id |-> "STORE01", sku |-> "RUN001-9", quantity |-> q],
                         [store_id |-> "ONLINE", sku |-> "CAS001-8", quantity |-> q]}
    /\ \E u \in 0..MaxUnits :
         sales = OneSale("STORE01", "RUN001-9", u) \o DailySales("ONLINE", "CAS001-8", u)
    /\ transfer_recommendations = <<>>
    /\ df = <<>>
    /\ transfers = <<>>
    /\ app = "none"

NextClassify ==
    \/ app = "none" /\ excess_stock_threshold <= ExcessMax /\ Rerun
    \/ app = "none" /\ ClassifyA
    \/ app = "none" /\ ClassifyMin

SpecClassify == InitClassify /\ [][NextClassify]_vars

(***************************************************************************)
(* SpecWindow: the sales aggregation as a function of the sales log and of *)
(* the lookback.  Two positions of one SKU; up to MaxSaleEvents sale       *)
(* events at either store, dated tomorrow, today, or 1, 2, 7 or 8 days     *)
(* ago; the lookback slider at its minimum or at its default.              *)
(***************************************************************************)
SaleDates == {-1, 0, 1, 2, DaysLookbackDefault, DaysLookbackDefault + 1}

SaleEvents ==
    [store_id : {"STORE01", "STORE02"}, sku : {"RUN001-9"},
     sale_date : SaleDates, quantity : 1..MaxUnits]

InitWindow ==
    /\ low_stock_threshold = LowDefault
    /\ need_ratio_threshold = NeedRatioDefault
    /\ excess_stock_threshold = ExcessDefault
    /\ excess_ratio_threshold = ExcessRatioDefault
    /\ days_lookback \in {DaysLookbackMin, DaysLookbackDefault}
    /\ products = Skus
    /\ stock_levels = {[store_id |-> "STORE01", sku |-> "RUN001-9", quantity |-> 1],
                       [store_id |-> "STORE02", sku |-> "RUN001-9", quantity |-> 10]}
    /\ \E n \in 0..MaxSaleEvents : sales \in [1..n -> SaleEvents]
    /\ transfer_recommendations = <<>>
    /\ df = <<>>
    /\ transfers = <<>>
    /\ app = "none"

NextWindow ==
    \/ app = "none" /\ Rerun
    \/ app = "none" /\ ClassifyA

SpecWindow == InitWindow /\ [][NextWindow]_vars

(***************************************************************************)
(* SpecMatch: the transfer matcher as a function of its inputs.  Two       *)
(* positions in different stores, for the same SKU or for different ones,  *)
(* with any stock and units sold within the bounds; every widget at its    *)
(* minimum, default or maximum.                                            *)
(***************************************************************************)
WidgetStops(min, default, max) == {min, default, max}

InitMatch ==
    /\ low_stock_threshold \in WidgetStops(LowMin, LowDefault, LowMax)
    /\ need_ratio_threshold \in WidgetStops(NeedRatioMin, NeedRatioDefault, NeedRatioMax)
    /\ excess_stock_threshold \in WidgetStops(ExcessMin, ExcessDefault, ExcessMax)
    /\ excess_ratio_threshold \in
          WidgetStops(ExcessRatioMin, ExcessRatioDefault, ExcessRatioMax)
    /\ days_lookback = DaysLookbackDefault
    /\ products = Skus
    /\ \E q1, q2 \in 0..MaxStock, sku2 \in {"RUN001-9", "CAS001-8"} :
         stock_levels = {[store_id |-> "STORE01", sku |-> "RUN001-9", quantity |-> q1],
                         [store_id |-> "STORE02", sku |-> sku2, quantity |-> q2]}
    /\ \E u1, u2 \in 0..MaxUnits, sku2 \in {"RUN001-9", "CAS001-8"} :
         sales = OneSale("STORE01", "RUN001-9", u1) \o OneSale("STORE02", sku2, u2)
    /\ \A i \in 1..Len(sales) :
         \E sl \in stock_levels : sl.store_id = sales[i].store_id /\ sl.sku = sales[i].sku
    /\ transfer_recommendations = <<>>
    /\ df = <<>>
    /\ transfers = <<>>
    /\ app = "none"

NextMatch == app = "none" /\ Rerun

SpecMatch == InitMatch /\ [][NextMatch]_vars

(***************************************************************************)
(* Spec: the dashboard of app.py in use.  It starts on the database        *)
(* init_database creates (stores only; no products, stock or sales), with  *)
(* the widgets at their defaults.  The uploads take the sample templates   *)
(* of the script and variations of them.                                   *)
(*                                                                         *)
(* app.py opens its connection through the module "database", of which the *)
(* sources hold the earlier database_1st.py only.  That file declares      *)
(* foreign keys from stock_levels and sales to stores and products and     *)
(* switches their enforcement on, under which SQLite refuses an upload     *)
(* whose rows have no parent row, and every upload once pandas has         *)
(* re-created products without its primary key.  Whether the store         *)
(* in use refuses an upload is therefore left open: an upload is either    *)
(* applied (UploadProducts, UploadStock, UploadSales) or refused as a      *)
(* whole (UploadRejected).                                                 *)
(***************************************************************************)
\* sample_stock of the template download.
SampleStock ==
    { [store_id |-> "STORE01", sku |-> "RUN001-9", quantity |-> 1],
      [store_id |-> "STORE01", sku |-> "RUN001-10", quantity |-> 5],
      [store_id |-> "STORE02", sku |-> "RUN001-9", quantity |-> 10] }

\* sample_sales of the template download, dated today and yesterday.
SampleSales ==
    << [store_id |-> "STORE01", sku |-> "RUN001-9", sale_date |-> 0, quantity |-> 1],
       [store_id |-> "STORE01", sku |-> "RUN001-10", sale_date |-> 0, quantity |-> 2],
       [store_id |-> "STORE02", sku |-> "RUN001-9", sale_date |-> 1, quantity |-> 1] >>

\* The stock files uploaded: the sample; the sample with a second store
\* holding as much of RUN001-9 as STORE02; a file with a sold-out position
\* and a position of negative quantity, each next to an overstocked one; the
\* sample with a row of a store that is not in stores and a row of a SKU
\* that is in no catalogue.
StockCsvs ==
    { SampleStock,
      SampleStock \cup {[store_id |-> "ONLINE", sku |-> "RUN001-9", quantity |-> 10]},
      { [store_id |-> "STORE01", sku |-> "RUN001-9", quantity |-> 0],
        [store_id |-> "STORE02", sku |-> "RUN001-9", quantity |-> 10],
        [store_id |-> "STORE01", sku |-> "RUN001-10", quantity |-> -1],
        [store_id |-> "STORE02", sku |-> "RUN001-10", quantity |-> 10] },
      SampleStock \cup {[store_id |-> "STORE99", sku |-> "RUN001-9", quantity |-> 10],
                        [store_id |-> "STORE02", sku |-> "XXX001-1", quantity |-> 10]} }

\* The sales files uploaded: the sample, and a file with one sale older than
\* any lookback and one sale of today at the online store.
SalesCsvs ==
    { SampleSales,
      << [store_id |-> "STORE02", sku |-> "RUN001-9", sale_date |-> 91, quantity |-> 1],
         [store_id |-> "ONLINE", sku |-> "RUN001-9", sale_date |-> 0, quantity |-> 1] >> }

\* The catalogue, stock and sales that Generate Test Data leaves, cut down
\* to one SKU: the online store well stocked and without sales, the
\* flagship store on a low quantity (1..2) of which one was sold today.
GeneratedProducts == {"NIKRUN0001-9-BLA"}

GeneratedStock ==
    { [store_id |-> "ONLINE", sku |-> "NIKRUN0001-9-BLA", quantity |-> 20],
      [store_id |-> "STORE01", sku |-> "NIKRUN0001-9-BLA", quantity |-> 1] }

GeneratedSales ==
    << [store_id |-> "STORE01", sku |-> "NIKRUN0001-9-BLA", sale_date |-> 0, quantity |-> 1] >>

Init ==
    /\ low_stock_threshold = LowDefault
    /\ need_ratio_threshold = NeedRatioDefault
    /\ excess_stock_threshold = ExcessDefault
    /\ excess_ratio_threshold = ExcessRatioDefault
    /\ days_lookback = DaysLookbackDefault
    /\ products = {}
    /\ stock_levels = {}
    /\ sales = <<>>
    /\ transfer_recommendations = <<>>
    /\ df = <<>>
    /\ transfers = <<>>
    /\ app = "none"

\* Sidebar widgets.
SetLowStockThreshold(v) ==
    /\ low_stock_threshold' = v
    /\ UNCHANGED <<need_ratio_threshold, excess_stock_threshold, excess_ratio_threshold,
                   days_lookback, Tables>>
    /\ Evaluate

SetNeedRatioThreshold(v) ==
    /\ need_ratio_threshold' = v
    /\ UNCHANGED <<low_stock_threshold, excess_stock_threshold, excess_ratio_threshold,
                   days_lookback, Tables>>
    /\ Evaluate

SetExcessStockThreshold(v) ==
    /\ excess_stock_threshold' = v
    /\ UNCHANGED <<low_stock_threshold, need_ratio_threshold, excess_ratio_threshold,
                   days_lookback, Tables>>
    /\ Evaluate

SetExcessRatioThreshold(v) ==
    /\ excess_ratio_threshold' = v
    /\ UNCHANGED <<low_stock_threshold, need_ratio_threshold, excess_stock_threshold,
                   days_lookback, Tables>>
    /\ Evaluate

\* A run of the script that stops on an exception raised in the sidebar: the
\* dashboard below it is not computed.
Abort ==
    /\ df' = <<>>
    /\ transfers' = <<>>
    /\ app' = "error"

\* Upload Products CSV: to_sql(..., if_exists='replace').
UploadProducts(csv) ==
    /\ products' = csv
    /\ UNCHANGED <<Thresholds, stock_levels, sales, transfer_recommendations>>
    /\ Evaluate

\* An upload the store refuses: the statement raises, the open transaction
\* (with the DELETE of a stock upload) is rolled back and the run stops.
UploadRejected ==
    /\ UNCHANGED <<Thresholds, Tables>>
    /\ Abort

\* Upload Stock Levels CSV: DELETE FROM stock_levels, then append the file.
UploadStock(csv) ==
    /\ stock_levels' = csv
    /\ UNCHANGED <<Thresholds, products, sales, transfer_recommendations>>
    /\ Evaluate

\* Upload Sales CSV: append the file to sales.
UploadSales(csv) ==
    /\ Len(sales) + Len(csv) <= MaxSalesRows
    /\ sales' = sales \o csv
    /\ UNCHANGED <<Thresholds, products, stock_levels, transfer_recommendations>>
    /\ Evaluate

\* Mutant of CreateTransfer: the confirmation also moves the quantity from
\* the source position to the destination position.
CreateTransferApplied(i) ==
    /\ app = "app"
    /\ i \in 1..Len(transfers)
    /\ PriorityTier(transfers[i]) # "none"
    /\ transfer_recommendations' =
          Append(transfer_recommendations,
                 [from_store_id |-> transfers[i].has_store_id,
                  to_store_id |-> transfers[i].needs_store_id,
                  sku |-> transfers[i].sku,
                  quantity |-> transfers[i].transfer_qty,
                  priority |-> PriorityLabel(transfers[i]),
                  status |-> "pending"])
    /\ stock_levels' =
          { IF sl.sku = transfers[i].sku /\ sl.store_id = transfers[i].has_store_id
              THEN [sl EXCEPT !.quantity = @ - transfers[i].transfer_qty]
            ELSE IF sl.sku = transfers[i].sku /\ sl.store_id = transfers[i].needs_store_id
              THEN [sl EXCEPT !.quantity = @ + transfers[i].transfer_qty]
            ELSE sl : sl \in stock_levels }
    /\ UNCHANGED <<Thresholds, products, sales>>
    /\ Evaluate

\* Mutant of CreateTransfer: the INSERT binds the two stores the other way round.
CreateTransferReversed(i) ==
    /\ app = "app"
    /\ i \in 1..Len(transfers)
    /\ PriorityTier(transfers[i]) # "none"
    /\ transfer_recommendations' =
          Append(transfer_recommendations,
                 [from_store_id |-> transfers[i].needs_store_id,
                  to_store_id |-> transfers[i].has_store_id,
                  sku |-> transfers[i].sku,
                  quantity |-> transfers[i].transfer_qty,
                  priority |-> PriorityLabel(transfers[i]),
                  status |-> "pending"])
    /\ UNCHANGED <<Thresholds, products, stock_levels, sales>>
    /\ Evaluate

\* The "Create Transfer" button of the i-th listed recommendation: INSERT INTO
\* transfer_recommendations, commit, st.rerun().  Rows whose priority_score is
\* NaN are in none of the three displayed groups and have no button.
CreateTransfer(i) ==
    /\ app = "app"
    /\ i \in 1..Len(transfers)
    /\ PriorityTier(transfers[i]) # "none"
    /\ transfer_recommendations' =
          Append(transfer_recommendations,
                 [from_store_id |-> transfers[i].has_store_id,
                  to_store_id |-> transfers[i].needs_store_id,
                  sku |-> transfers[i].sku,
                  quantity |-> transfers[i].transfer_qty,
                  priority |-> PriorityLabel(transfers[i]),
                  status |-> "pending"])
    /\ UNCHANGED <<Thresholds, products, stock_levels, sales>>
    /\ Evaluate

\* The "Generate Test Data" button: products replaced (committed by to_sql),
\* then generate_high_volume_stock (DELETE FROM sales, transfer_recommendations
\* and stock_levels, new stock, commit), then generate_high_volume_sales (new
\* sales, commit).  No step is guarded by try/except in the handler: when one
\* raises, what the earlier steps committed stays, the uncommitted part is
\* lost with the connection, and the run stops.
GenerateTestData(outcome) ==
    /\ UNCHANGED Thresholds
    /\ \/ /\ outcome = "done"
          /\ products' = GeneratedProducts
          /\ stock_levels' = GeneratedStock
          /\ sales' = GeneratedSales
          /\ transfer_recommendations' = <<>>
          /\ Evaluate
       \/ /\ outcome = "stock_failed"
          /\ products' = GeneratedProducts
          /\ UNCHANGED <<stock_levels, sales, transfer_recommendations>>
          /\ Abort
       \/ /\ outcome = "sales_failed"
          /\ products' = GeneratedProducts
          /\ stock_levels' = GeneratedStock
          /\ sales' = <<>>
          /\ transfer_recommendations' = <<>>
          /\ Abort

\* The widgets other than w hold their default values.
OthersAtDefault(w) ==
    /\ w # "low" => low_stock_threshold = LowDefault
    /\ w # "need_ratio" => need_ratio_threshold = NeedRatioDefault
    /\ w # "excess" => excess_stock_threshold = ExcessDefault
    /\ w # "excess_ratio" => excess_ratio_threshold = ExcessRatioDefault

\* The sessions explored move one widget away from its default at a time.
Next ==
    \/ Rerun
    \/ \E v \in {LowDefault, LowMax} : OthersAtDefault("low") /\ SetLowStockThreshold(v)
    \/ \E v \in {NeedRatioDefault, NeedRatioMax} :
          OthersAtDefault("need_ratio") /\ SetNeedRatioThreshold(v)
    \/ \E v \in {ExcessMin, ExcessDefault} :
          OthersAtDefault("excess") /\ SetExcessStockThreshold(v)
    \/ \E v \in {ExcessRatioMin, ExcessRatioDefault} :
          OthersAtDefault("excess_ratio") /\ SetExcessRatioThreshold(v)
    \/ UploadProducts(Skus)
    \/ UploadRejected
    \/ \E outcome \in {"done", "stock_failed", "sales_failed"} : GenerateTestData(outcome)
    \/ \E csv \in StockCsvs : UploadStock(csv)
    \/ \E csv \in SalesCsvs : UploadSales(csv)
    \/ \E i \in 1..TransferLimit :
          Len(transfer_recommendations) < MaxRecs /\ CreateTransfer(i)

Spec == Init /\ [][Next]_vars

(***************************************************************************)
(* SpecConfirm: a session on a loaded database in which the user only      *)
(* looks at the dashboard and presses Create Transfer, up to MaxConfirmed  *)
(* times.  The database holds the catalogue, one of the stock files and    *)
(* one of the sales files; the low and excess widgets are at one of two    *)
(* stops.                                                                  *)
(***************************************************************************)
InitConfirm ==
    /\ low_stock_threshold \in {LowDefault, LowMax}
    /\ need_ratio_threshold = NeedRatioDefault
    /\ excess_stock_threshold \in {ExcessMin, ExcessDefault}
    /\ excess_ratio_threshold = ExcessRatioDefault
    /\ days_lookback = DaysLookbackDefault
    /\ products = Skus
    /\ stock_levels \in StockCsvs
    /\ sales \in SalesCsvs
    /\ transfer_recommendations = <<>>
    /\ df = <<>>
    /\ transfers = <<>>
    /\ app = "none"

NextConfirm ==
    \/ Rerun
    \/ \E i \in 1..TransferLimit :
          Len(transfer_recommendations) < MaxConfirmed /\ CreateTransfer(i)

SpecConfirm == InitConfirm /\ [][NextConfirm]_vars

(***************************************************************************)
(* Transfer export of app_1st.py (Policy A): the query behind the "Export  *)
(* Transfer Recommendations" button, over the rows of the combined CTE.    *)
(* Stores are given by their ids.                                          *)
(***************************************************************************)
\* priority CASE
PriorityA(n) == IF n.units_sold > 0 THEN "HIGH_PRIORITY" ELSE "LOW_PRIORITY"

\* MIN(? - n.current_stock, e.current_stock - ?) as recommended_qty
RecommendedQtyA(n, e, low, excess) ==
    Min2(low - n.current_stock, e.current_stock - excess)

\* One row of the SELECT list for the pair (n, e).
TransferRowA(n, e, low, excess) ==
    [to_store |-> n.store_id, from_store |-> e.store_id, sku |-> n.sku,
     to_current |-> n.current_stock, from_current |-> e.current_stock,
     to_demand |-> n.units_sold, from_demand |-> e.units_sold,
     priority |-> PriorityA(n),
     recommended_qty |-> RecommendedQtyA(n, e, low, excess)]

\* FROM combined n JOIN combined e ON ... WHERE n.current_stock < ? AND
\* e.current_stock > ?
TransferJoinA(low, excess) ==
    LET pairs == { p \in CombinedA \X CombinedA :
                     /\ p[1].sku = p[2].sku
                     /\ p[1].store_id # p[2].store_id
                     /\ p[1].status = "NEEDS_STOCK"
                     /\ p[2].status = "EXCESS_STOCK"
                     /\ p[1].current_stock < low
                     /\ p[2].current_stock > excess }
    IN  { TransferRowA(p[1], p[2], low, excess) : p \in pairs }

\* x sorts strictly before y under ORDER BY priority DESC, n.units_sold_14d
\* DESC; as text, 'LOW_PRIORITY' is greater than 'HIGH_PRIORITY'.
TransferBeforeA(x, y) ==
    \/ x.priority = "LOW_PRIORITY" /\ y.priority = "HIGH_PRIORITY"
    \/ x.priority = y.priority /\ x.to_demand > y.to_demand

RECURSIVE TransferOrderingsA(_)
TransferOrderingsA(S) ==
    IF S = {} THEN {<<>>}
    ELSE UNION { UNION { { <<m>> \o s : s \in TransferOrderingsA(R) } : R \in {S \ {m}} } :
                 m \in { x \in S : \A y \in S : ~TransferBeforeA(y, x) } }

\* A run of app_1st.py with the export button pressed: the classification,
\* then the export query.
ExportTransfersA ==
    /\ need_ratio_threshold = NeedRatioDefault
    /\ excess_ratio_threshold = ExcessRatioDefault
    /\ UNCHANGED <<Thresholds, Tables>>
    /\ df' \in UNION { AnyOrder(rows) : rows \in {CombinedA} }
    /\ transfers' \in UNION { TransferOrderingsA(rows) :
                               rows \in { TransferJoinA(low_stock_threshold,
                                                        excess_stock_threshold) } }
    /\ app' = "app_1st"

(***************************************************************************)
(* SpecMatchA: the export query as a function of its inputs.  Two shop     *)
(* positions of any stock and sales, next to an online position of the     *)
(* first SKU that holds MaxStock pieces and sold nothing.                  *)
(***************************************************************************)
InitMatchA ==
    /\ low_stock_threshold \in WidgetStops(LowMin, LowDefault, LowMax)
    /\ need_ratio_threshold = NeedRatioDefault
    /\ excess_stock_threshold \in {ExcessMin, ExcessDefault}
    /\ excess_ratio_threshold = ExcessRatioDefault
    /\ days_lookback = DaysLookbackDefault
    /\ products = Skus
    /\ \E q1, q2 \in 0..MaxStock, sku2 \in {"RUN001-9", "CAS001-8"} :
         stock_levels = {[store_id |-> "STORE01", sku |-> "RUN001-9", quantity |-> q1],
                         [store_id |-> "STORE02", sku |-> sku2, quantity |-> q2],
                         [store_id |-> "ONLINE", sku |-> "RUN001-9", quantity |-> MaxStock]}
    /\ \E u1, u2 \in 0..MaxUnits, sku2 \in {"RUN001-9", "CAS001-8"} :
         sales = OneSale("STORE01", "RUN001-9", u1) \o OneSale("STORE02", sku2, u2)
    /\ \A i \in 1..Len(sales) :
         \E sl \in stock_levels : sl.store_id = sales[i].store_id /\ sl.sku = sales[i].sku
    /\ transfer_recommendations = <<>>
    /\ df = <<>>
    /\ transfers = <<>>
    /\ app = "none"

NextMatchA == app = "none" /\ ExportTransfersA

SpecMatchA == InitMatchA /\ [][NextMatchA]_vars

(***************************************************************************)
(* SpecLimit: the transfer query on a catalogue large enough for LIMIT to  *)
(* cut the list.  Each of the first k SKUs is nearly sold out in both      *)
(* shops and overstocked online, which gives two candidates per SKU.  The  *)
(* shops sell 2i and 2i - 1 units of the i-th SKU, so all candidates rank  *)
(* differently; with tie set, both shops sell the same of the second SKU,  *)
(* whose candidates are the ones LIMIT cuts through.                       *)
(***************************************************************************)
LimitSku(i) == "SKU" \o ToString(i)

LimitStock(k) ==
    UNION { { [store_id |-> "STORE01", sku |-> LimitSku(i), quantity |-> 1],
              [store_id |-> "STORE02", sku |-> LimitSku(i), quantity |-> 1],
              [store_id |-> "ONLINE", sku |-> LimitSku(i), quantity |-> ExcessMax + i] } :
            i \in 1..k }

LimitSales(k, tie) ==
    [j \in 1..(2 * k) |->
        LET i == (j + 1) \div 2 IN
        IF j % 2 = 1
            THEN [store_id |-> "STORE01", sku |-> LimitSku(i), sale_date |-> 0,
                  quantity |-> 2 * i]
            ELSE [store_id |-> "STORE02", sku |-> LimitSku(i), sale_date |-> 0,
                  quantity |-> IF tie /\ i = 2 THEN 2 * i ELSE 2 * i - 1]]

InitLimit ==
    /\ low_stock_threshold \in {LowDefault, LowMax}
    /\ need_ratio_threshold = NeedRatioDefault
    /\ excess_stock_threshold \in {ExcessMin, ExcessDefault}
    /\ excess_ratio_threshold = ExcessRatioDefault
    /\ days_lookback = DaysLookbackDefault
    /\ \E k \in 0..MaxLimitSkus, tie \in BOOLEAN :
         /\ products = { LimitSku(i) : i \in 1..k }
         /\ stock_levels = LimitStock(k)
         /\ sales = LimitSales(k, tie)
    /\ transfer_recommendations = <<>>
    /\ df = <<>>
    /\ transfers = <<>>
    /\ app = "none"

NextLimit == app = "none" /\ Rerun

SpecLimit == InitLimit /\ [][NextLimit]_vars

(***************************************************************************)
(* SpecSafe: generate_safe_test_data of data_generator_safe.py, called on  *)
(* a loaded database between runs of the dashboard.  The function runs its *)
(* statements in one transaction; any of them may raise.                   *)
(***************************************************************************)
\* The statements between BEGIN TRANSACTION and conn.commit().
SafeStatements ==
    << "DELETE FROM sales", "DELETE FROM transfer_recommendations",
       "DELETE FROM stock_levels", "DELETE FROM products",
       "INSERT INTO products", "INSERT INTO stock_levels", "INSERT INTO sales" >>

\* The generated catalogue (styles x sizes), cut down to two SKUs.
SafeProducts == {"RUN001-9", "FOR001-7"}

\* Generated stock: every store holds some of the products, 1..15 pieces in
\* a shop and 10..25 online; here one SKU per store and the ends of the shop
\* range.
SafeStocks ==
    { { [store_id |-> "STORE01", sku |-> "RUN001-9", quantity |-> q],
        [store_id |-> "STORE02", sku |-> "FOR001-7", quantity |-> q],
        [store_id |-> "ONLINE", sku |-> "RUN001-9", quantity |-> 25] } : q \in {1, 15} }

\* Generated sales: sales of 1..2 pieces of SKUs the store has in stock; here
\* one sale of today at the first shop.
SafeSales(stock) ==
    { << [store_id |-> "STORE01", sku |-> "RUN001-9", sale_date |-> 0, quantity |-> u] >> :
        u \in 1..2 }

\* The tables as the connection sees them after one statement.
SafeExec(t, new, stmt) ==
    CASE stmt = "DELETE FROM sales" -> [t EXCEPT !.sales = <<>>]
      [] stmt = "DELETE FROM transfer_recommendations" ->
            [t EXCEPT !.transfer_recommendations = <<>>]
      [] stmt = "DELETE FROM stock_levels" -> [t EXCEPT !.stock_levels = {}]
      [] stmt = "DELETE FROM products" -> [t EXCEPT !.products = {}]
      [] stmt = "INSERT INTO products" -> [t EXCEPT !.products = @ \cup new.products]
      [] stmt = "INSERT INTO stock_levels" ->
            [t EXCEPT !.stock_levels = @ \cup new.stock_levels]
      [] stmt = "INSERT INTO sales" -> [t EXCEPT !.sales = @ \o new.sales]

\* The try block: the statements in turn, up to the one that raises.
RECURSIVE SafeTry(_, _, _, _)
SafeTry(t, new, stmts, raising) ==
    IF stmts = <<>> THEN [tables |-> t, returned |-> TRUE]
    ELSE IF Head(stmts) = raising THEN [tables |-> t, returned |-> FALSE]
    ELSE SafeTry(SafeExec(t, new, Head(stmts)), new, Tail(stmts), raising)

\* Mutant of SafeRollback: the except branch re-raises without rolling back
\* and the work of the transaction is committed later.
SafeRollbackKeepsWork(before, working) == working

\* conn.rollback() in the except branch.
SafeRollback(before, working) == before

\* generate_safe_test_data(conn); raising is the statement that raises, or
\* "none".  Nothing of the dashboard is computed by the call.
GenerateSafeTestData(raising) ==
    \E stock \in SafeStocks : \E new_sales \in SafeSales(stock) :
        LET before == [products |-> products, stock_levels |-> stock_levels,
                       sales |-> sales,
                       transfer_recommendations |-> transfer_recommendations]
            new == [products |-> SafeProducts, stock_levels |-> stock, sales |-> new_sales]
            try == SafeTry(before, new, SafeStatements, raising)
            after == IF try.returned THEN try.tables
                     ELSE SafeRollback(before, try.tables)
        IN  /\ products' = after.products
            /\ stock_levels' = after.stock_levels
            /\ sales' = after.sales
            /\ transfer_recommendations' = after.transfer_recommendations
            /\ app' = IF try.returned THEN "safe_returned" ELSE "safe_raised"
            /\ df' = <<>>
            /\ transfers' = <<>>
            /\ UNCHANGED Thresholds

InitSafe ==
    /\ low_stock_threshold \in {LowDefault, LowMax}
    /\ need_ratio_threshold = NeedRatioDefault
    /\ excess_stock_threshold = ExcessDefault
    /\ excess_ratio_threshold = ExcessRatioDefault
    /\ days_lookback = DaysLookbackDefault
    /\ products \in {{}, Skus}
    /\ stock_levels \in {{}} \cup StockCsvs
    /\ sales \in {<<>>} \cup SalesCsvs
    /\ transfer_recommendations = <<>>
    /\ df = <<>>
    /\ transfers = <<>>
    /\ app = "none"

NextSafe ==
    \/ Rerun
    \/ \E i \in 1..TransferLimit :
          Len(transfer_recommendations) < MaxRecs /\ CreateTransfer(i)
    \/ \E raising \in {"none"} \cup {SafeStatements[k] : k \in 1..Len(SafeStatements)} :
          GenerateSafeTestData(raising)

SpecSafe == InitSafe /\ [][NextSafe]_vars

(***************************************************************************)
(* Properties of the classifiers (checked under SpecClassify).             *)
(***************************************************************************)
Statuses == {"NEEDS_STOCK", "EXCESS_STOCK", "OK"}
Rows == { df[i] : i \in 1..Len(df) }

\* The ratio tests as the specification words them, on integers.
SellsFasterThan(units_sold, current_stock, need_ratio) ==
    current_stock > 0 /\ units_sold * need_ratio > current_stock
CoversMoreThan(units_sold, current_stock, excess_ratio) ==
    units_sold > 0 /\ current_stock > units_sold * excess_ratio

NeedsRuleB(r) ==
    /\ r.units_sold > 0
    /\ \/ r.current_stock <= low_stock_threshold
       \/ SellsFasterThan(r.units_sold, r.current_stock, need_ratio_threshold)
ExcessRuleB(r) ==
    /\ r.current_stock >= excess_stock_threshold
    /\ \/ r.units_sold = 0
       \/ CoversMoreThan(r.units_sold, r.current_stock, excess_ratio_threshold)

\* C3: every stock position is in the result with exactly one status out of
\* NEEDS_STOCK, EXCESS_STOCK and OK, and two positions with equal stock and
\* equal units sold have the same status, whatever their store, SKU or the
\* number of days they sold on.
StatusIsTotalAndFunctional ==
    app # "none" =>
        /\ Len(df) = Cardinality(stock_levels)
        /\ \A sl \in stock_levels :
              Cardinality({ r \in Rows : r.store_id = sl.store_id /\ r.sku = sl.sku }) = 1
        /\ \A r \in Rows : r.status \in Statuses
        /\ \A r1, r2 \in Rows :
              (r1.current_stock = r2.current_stock /\ r1.units_sold = r2.units_sold)
                  => r1.status = r2.status

\* Witness of C3: app.py classified two positions of different stores that
\* sold the same units on a different number of days, both NEEDS_STOCK.
TwoAlikePositionsClassified ==
    /\ app = "app"
    /\ \E r1, r2 \in Rows :
          /\ r1.store_id # r2.store_id
          /\ r1.days_sold # r2.days_sold
          /\ r1.units_sold = r2.units_sold
          /\ r1.status = "NEEDS_STOCK" /\ r2.status = "NEEDS_STOCK"

\* C5: under Policy A a position is NEEDS_STOCK exactly when units_sold > 0
\* and current_stock <= low threshold, EXCESS_STOCK exactly when
\* units_sold = 0 and current_stock >= excess threshold, OK otherwise.
PolicyAStatusRule ==
    app \in {"app_1st", "app_min"} =>
        \A r \in Rows :
            /\ r.status = "NEEDS_STOCK" <=>
                  (r.units_sold > 0 /\ r.current_stock <= low_stock_threshold)
            /\ r.status = "EXCESS_STOCK" <=>
                  (r.units_sold = 0 /\ r.current_stock >= excess_stock_threshold)
            /\ r.status = "OK" <=>
                  /\ ~(r.units_sold > 0 /\ r.current_stock <= low_stock_threshold)
                  /\ ~(r.units_sold = 0 /\ r.current_stock >= excess_stock_threshold)

\* Witness of C5: Policy A found a stocked position without sales to be
\* EXCESS_STOCK although its stock is at or below the low threshold.
PolicyAExcessBelowLow ==
    /\ app = "app_1st"
    /\ \E r \in Rows :
          /\ r.status = "EXCESS_STOCK"
          /\ r.current_stock <= low_stock_threshold

PolicyBNeedsRule ==
    app = "app" => \A r \in Rows : r.status = "NEEDS_STOCK" <=> NeedsRuleB(r)

\* Witness of C7: the specification's example (stock 5, 2 sold, ratio 1:3,
\* stock above the low threshold) is NEEDS_STOCK.
FastMoverAboveLowNeedsStock ==
    /\ app = "app"
    /\ need_ratio_threshold = 3
    /\ \E r \in Rows :
          /\ r.current_stock = 5 /\ r.units_sold = 2
          /\ r.current_stock > low_stock_threshold
          /\ r.status = "NEEDS_STOCK"

\* C8 as stated: under Policy B a position is EXCESS_STOCK exactly when
\* current_stock >= excess threshold and (units_sold = 0 or
\* current_stock / units_sold > excess ratio).
PolicyBExcessRule ==
    app = "app" => \A r \in Rows : r.status = "EXCESS_STOCK" <=> ExcessRuleB(r)

\* C8 as amended: under Policy B a position is EXCESS_STOCK exactly when it
\* is not NEEDS_STOCK, current_stock >= excess threshold and (units_sold = 0
\* or current_stock / units_sold > excess ratio).
PolicyBExcessUnlessNeeds ==
    app = "app" =>
        \A r \in Rows : r.status = "EXCESS_STOCK" <=> (~NeedsRuleB(r) /\ ExcessRuleB(r))

\* Witness of C8: a position with sales is EXCESS_STOCK through its
\* stock-to-sales ratio.
SlowMoverExcess ==
    /\ app = "app"
    /\ \E r \in Rows : r.status = "EXCESS_STOCK" /\ r.units_sold > 0

\* C9 as stated: under Policy B the imbalance of a NEEDS_STOCK position is
\* the larger of low threshold - current_stock and
\* units_sold * need ratio - current_stock.
PolicyBNeedsImbalanceIsMax ==
    app = "app" =>
        \A r \in Rows :
            r.status = "NEEDS_STOCK" =>
                r.imbalance_qty =
                    Max2(low_stock_threshold - r.current_stock,
                         r.units_sold * need_ratio_threshold - r.current_stock)

\* C9 as amended: under Policy B the imbalance of a NEEDS_STOCK position is
\* low threshold - current_stock when current_stock <= low threshold, and
\* units_sold * need ratio - current_stock when current_stock is above it;
\* the transfer query computes the same quantity as transfer_qty_needed.
PolicyBNeedsImbalanceByBranch ==
    app = "app" =>
        \A r \in Rows :
            r.status = "NEEDS_STOCK" =>
                /\ r.current_stock <= low_stock_threshold =>
                      r.imbalance_qty = low_stock_threshold - r.current_stock
                /\ r.current_stock > low_stock_threshold =>
                      r.imbalance_qty =
                          r.units_sold * need_ratio_threshold - r.current_stock
                /\ r.imbalance_qty =
                      TransferQtyNeeded(r, low_stock_threshold, need_ratio_threshold)

\* Witness of C9: a NEEDS_STOCK position at or below the low threshold whose
\* velocity target is above the safety floor, and whose imbalance is the
\* smaller of the two quantities.
FloorBelowVelocityTarget ==
    /\ app = "app"
    /\ \E r \in Rows :
          /\ r.status = "NEEDS_STOCK"
          /\ r.current_stock <= low_stock_threshold
          /\ r.units_sold * need_ratio_threshold > low_stock_threshold
          /\ r.imbalance_qty = low_stock_threshold - r.current_stock

\* C10: under Policy B the imbalance of every EXCESS_STOCK position is
\* current_stock - units_sold * excess ratio and is never negative.
PolicyBExcessImbalance ==
    app = "app" =>
        \A r \in Rows :
            r.status = "EXCESS_STOCK" =>
                /\ r.imbalance_qty =
                      r.current_stock - r.units_sold * excess_ratio_threshold
                /\ r.imbalance_qty >= 0

\* Witness of C10: an EXCESS_STOCK position with sales keeps a positive
\* surplus over its velocity target.
ExcessWithSalesHasSurplus ==
    /\ app = "app"
    /\ \E r \in Rows :
          /\ r.status = "EXCESS_STOCK"
          /\ r.units_sold > 0
          /\ r.imbalance_qty > 0
          /\ r.imbalance_qty < r.current_stock

(***************************************************************************)
(* Properties of the matcher and of the dashboard.                         *)
(***************************************************************************)
\* The classified row of a position.
Position(store_id, sku) ==
    CHOOSE r \in Rows : r.store_id = store_id /\ r.sku = sku

\* C1 (SpecMatch): every listed recommendation has a source store other than
\* its destination store, a quantity above 0, a quantity no larger than the
\* source's surplus (its stock less units_sold * excess ratio, which is also
\* its imbalance_qty whenever the classifier calls it EXCESS_STOCK) and no
\* larger than the destination's deficit (its imbalance_qty).
TransferValidity ==
    app = "app" =>
        \A i \in 1..Len(transfers) :
            LET row == transfers[i]
                src == Position(row.has_store_id, row.sku)
                dst == Position(row.needs_store_id, row.sku)
            IN  /\ row.has_store_id # row.needs_store_id
                /\ row.transfer_qty > 0
                /\ row.transfer_qty <=
                      src.current_stock - src.units_sold * excess_ratio_threshold
                /\ src.status = "EXCESS_STOCK" => row.transfer_qty <= src.imbalance_qty
                /\ row.transfer_qty <= dst.imbalance_qty

\* Witness of C1: a recommendation whose quantity is the whole surplus of a
\* source with sales, smaller than the destination's deficit.
TransferBoundedBySurplus ==
    /\ app = "app"
    /\ \E i \in 1..Len(transfers) :
          /\ transfers[i].has_sales > 0
          /\ transfers[i].transfer_qty = transfers[i].transfer_qty_available
          /\ transfers[i].transfer_qty < transfers[i].transfer_qty_needed

\* C2 (Spec): a run of the queries and a confirmation leave stock_levels as
\* it is; a step that adds to transfer_recommendations adds exactly one row,
\* keeps the earlier rows, and leaves stock, sales and widgets alone, so the
\* classification and the recommendation lists the queries can return are
\* the same after it as before it.
ConfirmationLeavesStockAlone ==
    [][ /\ (Rerun \/ \E i \in 1..TransferLimit : CreateTransfer(i))
            => stock_levels' = stock_levels
        /\ Len(transfer_recommendations') > Len(transfer_recommendations)
            => /\ stock_levels' = stock_levels
               /\ sales' = sales
               /\ Thresholds' = Thresholds
               /\ Len(transfer_recommendations') = Len(transfer_recommendations) + 1
               /\ SubSeq(transfer_recommendations', 1, Len(transfer_recommendations))
                     = transfer_recommendations
               /\ ClassificationQuery' = ClassificationQuery
               /\ TransferQuery' = TransferQuery ]_vars

\* Witness of C2: after a confirmation the confirmed recommendation is still
\* listed, with the same quantity, and its source still holds the same stock.
ConfirmedStillRecommended ==
    /\ app = "app"
    /\ Len(transfer_recommendations) >= 1
    /\ \E i \in 1..Len(transfers) :
          /\ transfers[i].has_store_id = transfer_recommendations[1].from_store_id
          /\ transfers[i].needs_store_id = transfer_recommendations[1].to_store_id
          /\ transfers[i].sku = transfer_recommendations[1].sku
          /\ transfers[i].transfer_qty = transfer_recommendations[1].quantity
          /\ \E sl \in stock_levels :
                /\ sl.store_id = transfers[i].has_store_id
                /\ sl.sku = transfers[i].sku
                /\ sl.quantity = transfers[i].has_qty

\* C4 (Spec): running the script again on unchanged stock, sales, widgets
\* and date gives the same classified rows and the same recommendation list,
\* in the same order, also when candidates tie on priority_score and
\* units_sold.
RerunIsIdempotent ==
    [][ (app = "app" /\ Rerun) => (df' = df /\ transfers' = transfers) ]_vars

\* The sale events of a position dated within [today - lookback, today].
QualifyingSales(store_id, sku) ==
    SelectSeq(sales, LAMBDA e : /\ e.store_id = store_id
                                /\ e.sku = sku
                                /\ e.sale_date >= 0
                                /\ e.sale_date <= days_lookback)

\* C11 (SpecWindow): for every stock position units_sold is the sum of the
\* quantities of the sale events of the same store and SKU dated within
\* [today - lookback, today], days_sold is the number of distinct dates among
\* them, and both are 0 when no sale qualifies; events dated after today or
\* before today - lookback contribute nothing.
SalesWindowIsClosed ==
    app \in {"app", "app_1st"} =>
        \A r \in Rows :
            LET q == QualifyingSales(r.store_id, r.sku) IN
            /\ r.units_sold = SumQty(q)
            /\ r.days_sold = Cardinality({ q[i].sale_date : i \in 1..Len(q) })

\* The positions the classifier gives a status.
PositionsWithStatus(status) ==
    { <<r.store_id, r.sku>> : r \in { x \in Rows : x.status = status } }

\* C12 (SpecMatch): when no position is NEEDS_STOCK, or no position is
\* EXCESS_STOCK, or there is no stock position at all, the recommendation
\* list is empty, and without stock positions so is the classified set.
EmptySideGivesNoRecommendation ==
    app = "app" =>
        /\ (PositionsWithStatus("NEEDS_STOCK") = {} \/ PositionsWithStatus("EXCESS_STOCK") = {})
              => transfers = <<>>
        /\ stock_levels = {} => (df = <<>> /\ transfers = <<>>)

\* C19 (SpecMatch): the recommended pairs are exactly the pairs of a
\* NEEDS_STOCK position n and an EXCESS_STOCK position e of the same SKU in
\* different stores with min(n.imbalance_qty, e.imbalance_qty) > 0, a
\* position that needs stock through its velocity alone included.
CandidatesAreAllNeedsExcessPairs ==
    app = "app" =>
        { <<transfers[i].needs_store_id, transfers[i].has_store_id, transfers[i].sku>> :
            i \in 1..Len(transfers) }
        = { <<p[1].store_id, p[2].store_id, p[1].sku>> :
              p \in { x \in Rows \X Rows :
                        /\ x[1].status = "NEEDS_STOCK"
                        /\ x[2].status = "EXCESS_STOCK"
                        /\ x[1].sku = x[2].sku
                        /\ x[1].store_id # x[2].store_id
                        /\ Min2(x[1].imbalance_qty, x[2].imbalance_qty) > 0 } }

\* C20 (SpecMatch): every recommendation goes to a position the classifier
\* labels NEEDS_STOCK from a position it labels EXCESS_STOCK; the matcher's
\* needs and excess sets are disjoint and are the classifier's.
MatcherUsesClassifierSets ==
    app = "app" =>
        /\ \A i \in 1..Len(transfers) :
              /\ Position(transfers[i].needs_store_id, transfers[i].sku).status
                    = "NEEDS_STOCK"
              /\ Position(transfers[i].has_store_id, transfers[i].sku).status
                    = "EXCESS_STOCK"
        /\ { <<r.store_id, r.sku>> :
                r \in NeedsStores(low_stock_threshold, need_ratio_threshold) }
              = PositionsWithStatus("NEEDS_STOCK")
        /\ { <<r.store_id, r.sku>> :
                r \in ExcessStores(excess_stock_threshold, excess_ratio_threshold) }
              = PositionsWithStatus("EXCESS_STOCK")

\* The status the running classifier gives the position of row r under the
\* thresholds low and excess, everything else as it is.
StatusAt(r, low, excess) ==
    IF app = "app"
        THEN Status(r, low, need_ratio_threshold, excess, excess_ratio_threshold)
    ELSE IF app = "app_1st" THEN StatusA(r.units_sold, r.current_stock, low, excess)
    ELSE StatusMin(r.units_sold, r.current_stock, low)

CountAt(status, low, excess) ==
    Cardinality({ r \in Rows : StatusAt(r, low, excess) = status })

CountNow(status) == Cardinality({ r \in Rows : r.status = status })

\* C13 (SpecClassify): with everything else fixed, a higher Low threshold
\* never gives fewer NEEDS_STOCK positions and a higher Excess threshold never
\* gives more EXCESS_STOCK positions, under Policy A and under Policy B.
ThresholdsAreMonotone ==
    app \in {"app", "app_1st", "app_min"} =>
        /\ \A low \in low_stock_threshold..(IF app = "app_min" THEN LowMaxMin ELSE LowMax) :
              CountAt("NEEDS_STOCK", low, excess_stock_threshold) >= CountNow("NEEDS_STOCK")
        /\ \A excess \in excess_stock_threshold..ExcessMax :
              app # "app_min" =>
                  CountAt("EXCESS_STOCK", low_stock_threshold, excess) <= CountNow("EXCESS_STOCK")

\* Witness of C13: both positions are EXCESS_STOCK under Policy B; a higher low
\* threshold turns them into NEEDS_STOCK and a higher excess threshold into OK.
HigherThresholdsMovePositions ==
    /\ app = "app"
    /\ CountNow("EXCESS_STOCK") = 2
    /\ \E low \in low_stock_threshold..LowMax :
          CountAt("NEEDS_STOCK", low, excess_stock_threshold) = 2
    /\ \E excess \in excess_stock_threshold..ExcessMax :
          CountAt("EXCESS_STOCK", low_stock_threshold, excess) = 0

\* The dataset an evaluation reads.
Dataset == <<products, stock_levels, sales>>

\* C14 (Spec): a bulk reload (a stock upload, Generate Test Data), failed or
\* not, leaves either the complete old dataset or the complete new one to
\* the next evaluation.
ReloadIsAtomic ==
    [][ ( \/ \E outcome \in {"done", "stock_failed", "sales_failed"} :
                GenerateTestData(outcome)
          \/ UploadRejected
          \/ \E csv \in StockCsvs : UploadStock(csv) )
        => \/ Dataset' = Dataset
           \/ Dataset' = <<GeneratedProducts, GeneratedStock, GeneratedSales>>
           \/ \E csv \in StockCsvs : Dataset' = <<products, csv, sales>> ]_vars

\* C15 (SpecConfirm): a confirmation appends exactly one record, from the
\* candidate's source store to its destination store, with the candidate's
\* SKU and quantity and the status pending; the records persisted before
\* stay as they are, and every record's status is pending, applied or
\* rejected.
ConfirmationPersistsOnePending ==
    /\ [](\A k \in 1..Len(transfer_recommendations) :
            transfer_recommendations[k].status \in {"pending", "applied", "rejected"})
    /\ [][ transfer_recommendations' # transfer_recommendations =>
            /\ Len(transfer_recommendations') = Len(transfer_recommendations) + 1
            /\ SubSeq(transfer_recommendations', 1, Len(transfer_recommendations))
                  = transfer_recommendations
            /\ \E i \in 1..Len(transfers) :
                  LET new == transfer_recommendations'[Len(transfer_recommendations')] IN
                  /\ new.from_store_id = transfers[i].has_store_id
                  /\ new.to_store_id = transfers[i].needs_store_id
                  /\ new.sku = transfers[i].sku
                  /\ new.quantity = transfers[i].transfer_qty
                  /\ new.status = "pending" ]_vars

\* Witness of C15: two different candidates were confirmed one after the other.
TwoConfirmationsPersisted ==
    /\ app = "app"
    /\ Len(transfer_recommendations) = 2
    /\ transfer_recommendations[1].from_store_id # transfer_recommendations[2].from_store_id

\* C16 (Spec): with excess_stock_threshold <= low_stock_threshold the
\* evaluation is aborted: no run completes, nothing is classified and
\* nothing is recommended.
InvalidThresholdsAbort ==
    excess_stock_threshold <= low_stock_threshold =>
        /\ app # "app"
        /\ df = <<>>
        /\ transfers = <<>>

\* C17 (Spec): a stock position of negative quantity is never the source or
\* the destination of a recommendation.
NegativePositionNeverRecommended ==
    app = "app" =>
        \A sl \in { x \in stock_levels : x.quantity < 0 } :
            \A i \in 1..Len(transfers) :
                transfers[i].sku = sl.sku =>
                    sl.store_id \notin {transfers[i].needs_store_id, transfers[i].has_store_id}

\* A stock record whose SKU is in products and whose store is an active store.
HasReferenceData(sl) ==
    /\ sl.sku \in products
    /\ \E s \in stores : s.store_id = sl.store_id /\ s.is_active = 1

ListedPositions ==
    { <<r.store_id, r.sku>> : r \in Rows }
      \cup { <<transfers[i].needs_store_id, transfers[i].sku>> : i \in 1..Len(transfers) }
      \cup { <<transfers[i].has_store_id, transfers[i].sku>> : i \in 1..Len(transfers) }

\* C18 (Spec): a stock record of a SKU that is not in products, or of a store
\* that is not an active store, is neither classified nor recommended from
\* or to, and the other positions are classified and matched as if the
\* record were not there.
MissingReferenceIsSkipped ==
    /\ [](app = "app" =>
            \A sl \in stock_levels :
                ~HasReferenceData(sl) => <<sl.store_id, sl.sku>> \notin ListedPositions)
    /\ [][ ( /\ UNCHANGED <<Thresholds, products, sales>>
              /\ { sl \in stock_levels' : HasReferenceData(sl) }
                    = { sl \in stock_levels : HasReferenceData(sl) } )
            => /\ ClassificationQuery' = ClassificationQuery
               /\ TransferQuery' = TransferQuery ]_vars

\* Witness of C18: a stock file with a row of an unknown store and a row of an
\* unknown SKU is loaded, and the positions next to them are classified and
\* matched.
OrphanRowsNextToResults ==
    /\ app = "app"
    /\ \E sl \in stock_levels : sl.sku \notin products
    /\ \E sl \in stock_levels : sl.sku \in products /\ sl.store_id \notin StoreIds
    /\ df # <<>>
    /\ transfers # <<>>

\* The REAL r is defined and has the value n / d.
IsRatio(r, n, d) == ~IsNull(r) /\ r[1] * d = n * r[2]

\* C21 (SpecMatch): no ratio is the result of a division by zero:
\* sales_to_stock_ratio is units_sold / current_stock for current_stock > 0
\* and 0 for current_stock = 0, so every position has a numeric ratio and
\* every recommendation a numeric priority_score.
RatiosAreDefined ==
    app = "app" =>
        /\ \A r \in Rows :
              /\ IF r.current_stock > 0
                    THEN IsRatio(r.sales_to_stock_ratio, r.units_sold, r.current_stock)
                    ELSE IsRatio(r.sales_to_stock_ratio, 0, 1)
              /\ ~IsNull(r.stock_to_sales_ratio)
        /\ \A i \in 1..Len(transfers) : ~IsNull(transfers[i].priority_score)

\* The recommendations displayed in a tier.
TierRows(tier) == { i \in 1..Len(transfers) : PriorityTier(transfers[i]) = tier }

\* C22 (SpecConfirm): every recommendation found is displayed in exactly one
\* of the tiers high, medium and low, so the three tiers add up to the number
\* reported as found, and the priority persisted by a confirmation is the
\* tier the candidate was displayed in.
TiersPartitionRecommendations ==
    /\ [](app = "app" =>
            Cardinality(TierRows("high")) + Cardinality(TierRows("medium"))
              + Cardinality(TierRows("low")) = Len(transfers))
    /\ [][ transfer_recommendations' # transfer_recommendations =>
            \E i \in 1..Len(transfers) :
                LET new == transfer_recommendations'[Len(transfer_recommendations')] IN
                /\ new.from_store_id = transfers[i].has_store_id
                /\ new.to_store_id = transfers[i].needs_store_id
                /\ new.sku = transfers[i].sku
                /\ new.priority = PriorityTier(transfers[i]) ]_vars

\* x ranks strictly before y by priority_score descending, then the needs
\* position's units_sold descending, then transfer_qty descending.
RanksBefore(x, y) ==
    \/ RatioDescBefore(x.priority_score, y.priority_score)
    \/ /\ ~RatioDescBefore(y.priority_score, x.priority_score)
       /\ \/ x.needs_sales > y.needs_sales
          \/ x.needs_sales = y.needs_sales /\ x.transfer_qty > y.transfer_qty

\* C23 (Spec): the recommendation list is ordered by priority_score
\* descending, then by the needs position's units_sold descending, then by
\* transfer_qty descending.
ListIsRanked ==
    app = "app" =>
        \A i, j \in 1..Len(transfers) :
            i < j => ~RanksBefore(transfers[j], transfers[i])

\* The rows of the transfer query before ORDER BY, LIMIT and the pandas filter.
QueryRows ==
    TransferJoin(low_stock_threshold, need_ratio_threshold,
                 excess_stock_threshold, excess_ratio_threshold)

\* C26 (SpecMatch): with non-negative stock and sales, every row of the
\* transfer query has transfer_qty_needed >= 1 and transfer_qty_available
\* >= 1, hence transfer_qty >= 1, and the filter transfer_qty > 0 removes no
\* row.
QueryRowsArePositive ==
    app = "app" =>
        /\ \A row \in QueryRows :
              /\ row.transfer_qty_needed >= 1
              /\ row.transfer_qty_available >= 1
              /\ row.transfer_qty >= 1
        /\ { transfers[i] : i \in 1..Len(transfers) } = QueryRows
        /\ Len(transfers) = Cardinality(QueryRows)

\* Witness of C26: a recommendation whose source can spare exactly one unit.
SourceSparesOneUnit ==
    /\ app = "app"
    /\ \E i \in 1..Len(transfers) :
          /\ transfers[i].transfer_qty_available = 1
          /\ transfers[i].transfer_qty_needed > 1
          /\ transfers[i].has_sales > 0

\* C27 (Spec): the needs position of every recommendation has current_stock
\* below low_stock_threshold, so every defined priority_score is at least
\* CriticalBonus and no recommendation is in the low tier.
LowTierIsEmpty ==
    app = "app" =>
        \A i \in 1..Len(transfers) :
            /\ transfers[i].needs_qty < low_stock_threshold
            /\ IsNull(transfers[i].priority_score)
                  \/ Ge3(transfers[i].priority_score, Real(CriticalBonus)) = "T"
            /\ PriorityTier(transfers[i]) # "low"

\* The listed recommendations that draw from, and that go to, a position.
DrawnFrom(store_id, sku) ==
    SelectSeq(transfers, LAMBDA row : row.has_store_id = store_id /\ row.sku = sku)

SentTo(store_id, sku) ==
    SelectSeq(transfers, LAMBDA row : row.needs_store_id = store_id /\ row.sku = sku)

RECURSIVE TotalQty(_)
TotalQty(s) == IF s = <<>> THEN 0 ELSE Head(s).transfer_qty + TotalQty(Tail(s))

\* C28 as stated (Spec): the quantities of all recommendations drawing from
\* one source add up to no more than its surplus, and the quantities of all
\* recommendations sent to one destination to no more than its deficit.
JointlyFeasible ==
    app = "app" =>
        \A i \in 1..Len(transfers) :
            /\ TotalQty(DrawnFrom(transfers[i].has_store_id, transfers[i].sku))
                  <= transfers[i].transfer_qty_available
            /\ TotalQty(SentTo(transfers[i].needs_store_id, transfers[i].sku))
                  <= transfers[i].transfer_qty_needed

\* C28 as amended (Spec): the recommendations of a list are alternatives.
\* Each one alone stays within its source's surplus and its destination's
\* deficit, so the total drawn from a source (sent to a destination) is at
\* most its surplus (deficit) times the number of recommendations naming it.
SeparatelyFeasible ==
    app = "app" =>
        \A i \in 1..Len(transfers) :
            LET from == DrawnFrom(transfers[i].has_store_id, transfers[i].sku)
                to == SentTo(transfers[i].needs_store_id, transfers[i].sku)
            IN  /\ transfers[i].transfer_qty <= transfers[i].transfer_qty_available
                /\ transfers[i].transfer_qty <= transfers[i].transfer_qty_needed
                /\ TotalQty(from) <= Len(from) * transfers[i].transfer_qty_available
                /\ TotalQty(to) <= Len(to) * transfers[i].transfer_qty_needed

\* Witness of C28: two sources are recommended for one destination, and
\* together they would send more than it lacks.
TwoSourcesOverfillDestination ==
    /\ app = "app"
    /\ \E i \in 1..Len(transfers) :
          /\ Len(SentTo(transfers[i].needs_store_id, transfers[i].sku)) = 2
          /\ TotalQty(SentTo(transfers[i].needs_store_id, transfers[i].sku))
                > transfers[i].transfer_qty_needed

\* The status Policy A would give with its two rules tried in the other order.
ExcessFirstA(units_sold, current_stock, low, excess) ==
    IF units_sold = 0 /\ current_stock >= excess THEN "EXCESS_STOCK"
    ELSE IF units_sold > 0 /\ current_stock <= low THEN "NEEDS_STOCK"
    ELSE "OK"

\* C29 (SpecClassify): under Policy A the NEEDS_STOCK rule and the
\* EXCESS_STOCK rule never hold for the same position, whatever the two
\* thresholds: a NEEDS_STOCK position has sales, an EXCESS_STOCK position has
\* none, and the order in which the rules are tried does not matter.
PolicyARulesExclusive ==
    app \in {"app_1st", "app_min"} =>
        \A r \in Rows :
            /\ r.status = "NEEDS_STOCK" => r.units_sold > 0
            /\ r.status = "EXCESS_STOCK" => r.units_sold = 0
            /\ r.status = ExcessFirstA(r.units_sold, r.current_stock, low_stock_threshold,
                                       IF app = "app_min" THEN ExcessFixedMin
                                       ELSE excess_stock_threshold)

\* Witness of C29: excess threshold <= stock <= low threshold; the position
\* with sales is NEEDS_STOCK.
PolicyAStockInBothRanges ==
    /\ app = "app_1st"
    /\ excess_stock_threshold < low_stock_threshold
    /\ \E r \in Rows :
          /\ r.current_stock >= excess_stock_threshold
          /\ r.current_stock <= low_stock_threshold
          /\ r.units_sold > 0
          /\ r.status = "NEEDS_STOCK"

\* C30 (SpecSafe): generate_safe_test_data is all or nothing.  When it
\* returns, products, stock_levels and sales hold the generated rows only
\* and transfer_recommendations is empty; when a statement raises, the four
\* tables hold the rows they held before the call.
SafeGenerationAllOrNothing ==
    [][ (\E raising \in {"none"} \cup {SafeStatements[k] : k \in 1..Len(SafeStatements)} :
            GenerateSafeTestData(raising))
        => IF app' = "safe_returned"
             THEN /\ products' = SafeProducts
                  /\ stock_levels' \in SafeStocks
                  /\ sales' \in SafeSales(stock_levels')
                  /\ transfer_recommendations' = <<>>
             ELSE /\ app' = "safe_raised"
                  /\ Tables' = Tables ]_vars

\* Witness of C30: a call on a database with a catalogue, stock, sales and a
\* confirmed transfer has raised, and all of them are still there.
SafeGenerationRolledBack ==
    /\ app = "safe_raised"
    /\ products = Skus
    /\ stock_levels \in StockCsvs
    /\ sales \in SalesCsvs
    /\ Len(transfer_recommendations) = 1

\* C25 (SpecMatchA): under Policy A a candidate has the high priority exactly
\* when its needs position sold more than 3 units, and the other priority
\* otherwise.
PolicyAPriorityByDemand ==
    app = "app_1st" =>
        \A i \in 1..Len(transfers) :
            transfers[i].priority = "HIGH_PRIORITY" <=> transfers[i].to_demand > 3

\* The rows of the transfer query with a positive quantity.
ValidCandidates == { row \in QueryRows : row.transfer_qty > 0 }

\* C24 (SpecLimit): the list has at most TransferLimit entries, and exactly
\* TransferLimit when that many valid candidates exist: it holds
\* min(TransferLimit, number of valid candidates) valid candidates, and no
\* candidate left out ranks before a listed one.
LimitKeepsTopCandidates ==
    app = "app" =>
        LET listed == { transfers[i] : i \in 1..Len(transfers) } IN
        /\ Len(transfers) <= TransferLimit
        /\ Len(transfers) = Min2(TransferLimit, Cardinality(ValidCandidates))
        /\ Cardinality(listed) = Len(transfers)
        /\ listed \subseteq ValidCandidates
        /\ \A row \in ValidCandidates \ listed :
              \A i \in 1..Len(transfers) : ~TransferBefore(row, transfers[i])

\* Witness of C24: more valid candidates than TransferLimit, and a full list.
LimitCutsTheList ==
    /\ app = "app"
    /\ Cardinality(ValidCandidates) > TransferLimit
    /\ Len(transfers) = TransferLimit

====
